---- MODULE Spec2Model ----
(***************************************************************************)
(* The function plugin runtime of open_webui (routers/functions.py): the   *)
(* persisted function records, the process-wide module registry            *)
(* request.app.state.FUNCTIONS, and the admin / per-user valve stores.     *)
(* The handlers are "async def" bodies without an await, so inside one     *)
(* process each handler runs to completion before the next one starts.     *)
(***************************************************************************)
EXTENDS Integers, Sequences, FiniteSets, TLC

VARIABLES
    db,          \* persisted function records, by id (Functions table)
    user_valves, \* persisted per-user valves, by <<function id, user id>>
    FUNCTIONS,   \* request.app.state.FUNCTIONS: id -> loaded module
    cache_dirs,  \* ids whose CACHE_DIR/functions/<id> directory exists
    inflight,    \* the handler that is between two of its statements, if any
    last,        \* the last request handled and its response
    body,        \* the valves document the last read request returned
    env,         \* whether what a source text needs at run time is available
    peer,        \* the registry and handler position of the other instance
    prompts,     \* persisted prompts, by command (Prompts table)
    models,      \* persisted models, by id (Models table)
    user_table,  \* persisted users, by id (Users table)
    auth_table   \* persisted credentials, by user id (Auths table)

\* The tables of the prompts, models and users routers.
stores == <<prompts, models, user_table, auth_table>>

vars == <<db, user_valves, FUNCTIONS, cache_dirs, inflight, last, body, env,
          peer, stores>>

-----------------------------------------------------------------------------
(* Identifiers. An id is a string, modelled as a sequence of characters.   *)

LowerLetters == {"f", "g"}
UpperLetters == {"F"}

\* A letter outside ASCII, written by its code point: e with acute accent.
OtherLetters == {"U+00E9"}
Digits == {"1"}
Underscore == {"_"}

\* The id strings a create form carries.
IdStrings == { <<"f">>, <<"F">>, <<"1", "f">>, <<"f", "-">>, <<>> }

\* The id strings a path parameter carries.
PathIds == { <<"f">>, <<"F">> }

\* The ids of two functions.
IdStringsTwo == { <<"f">>, <<"g">> }

\* The id strings of a create form, one of them with a letter outside ASCII.
IdStringsWide == { <<"f">>, <<"F">>, <<"U+00E9">>, <<"1", "f">> }

\* The letters of str.isidentifier(): those of every alphabet.
Letters == LowerLetters \cup UpperLetters \cup OtherLetters

\* str.isidentifier(): a letter or underscore, then letters, digits, underscores.
IsIdentifier(s) ==
    /\ Len(s) > 0
    /\ s[1] \in Letters \cup Underscore
    /\ \A i \in 1..Len(s) : s[i] \in Letters \cup Underscore \cup Digits

LowerChar(ch) == IF ch = "F" THEN "f" ELSE ch

\* str.lower()
Lower(s) == [i \in 1..Len(s) |-> LowerChar(s[i])]

\* The keys db and FUNCTIONS may hold: every id a request can address.
Keys ==
    PathIds \cup { Lower(s) : s \in IdStrings \cup IdStringsWide \cup IdStringsTwo }

\* The pattern [a-z0-9_]+ of the data model.
MatchesIdPattern(s) ==
    /\ Len(s) > 0
    /\ \A i \in 1..Len(s) : s[i] \in LowerLetters \cup Digits \cup Underscore

-----------------------------------------------------------------------------
(* Source texts. A content is named by a string; Source gives what the     *)
(* text holds: whether it compiles and runs, the entry-point classes it    *)
(* defines, the Valves / UserValves shapes it declares, its frontmatter.   *)

NoShape == [k \in {} |-> [type |-> "int", default |-> "i:1"]]

IntShape ==
    [k \in {"a", "b"} |->
        IF k = "a" THEN [type |-> "int", default |-> "i:1"]
                   ELSE [type |-> "int", default |-> "i:2"]]

StrShape == [k \in {"a"} |-> [type |-> "str", default |-> "s:x"]]

Contents == {"cA", "cB", "cOld", "cSyntax", "cRuntime", "cNoEntry"}

\* "cC" declares an Action class and neither a Valves nor a UserValves
\* shape. "cEnv" is "cA" with a top-level statement that raises unless
\* the process environment provides what it asks for.
ContentsOps == {"cA", "cB", "cC", "cEnv", "cSyntax"}

Source(c) ==
    CASE c = "cA" ->
           [compiles |-> TRUE, runs |-> TRUE, classes |-> {"Pipe"},
            has_valves |-> TRUE, valves |-> IntShape,
            has_user_valves |-> TRUE, user_valves |-> IntShape,
            frontmatter |-> "title: A", legacy_imports |-> FALSE]
      [] c = "cB" ->
           [compiles |-> TRUE, runs |-> TRUE, classes |-> {"Filter", "Pipe"},
            has_valves |-> TRUE, valves |-> StrShape,
            has_user_valves |-> FALSE, user_valves |-> NoShape,
            frontmatter |-> "title: B", legacy_imports |-> FALSE]
      [] c = "cOld" ->
           [compiles |-> TRUE, runs |-> TRUE, classes |-> {"Pipe"},
            has_valves |-> TRUE, valves |-> IntShape,
            has_user_valves |-> TRUE, user_valves |-> IntShape,
            frontmatter |-> "title: A", legacy_imports |-> TRUE]
      [] c = "cSyntax" ->
           [compiles |-> FALSE, runs |-> FALSE, classes |-> {},
            has_valves |-> FALSE, valves |-> NoShape,
            has_user_valves |-> FALSE, user_valves |-> NoShape,
            frontmatter |-> "title: S", legacy_imports |-> FALSE]
      [] c = "cC" ->
           [compiles |-> TRUE, runs |-> TRUE, classes |-> {"Action"},
            has_valves |-> FALSE, valves |-> NoShape,
            has_user_valves |-> FALSE, user_valves |-> NoShape,
            frontmatter |-> "title: C", legacy_imports |-> FALSE]
      [] c = "cEnv" ->
           [compiles |-> TRUE, runs |-> env, classes |-> {"Pipe"},
            has_valves |-> TRUE, valves |-> IntShape,
            has_user_valves |-> TRUE, user_valves |-> IntShape,
            frontmatter |-> "title: E", legacy_imports |-> FALSE]
      [] c = "cRuntime" ->
           [compiles |-> TRUE, runs |-> FALSE, classes |-> {},
            has_valves |-> FALSE, valves |-> NoShape,
            has_user_valves |-> FALSE, user_valves |-> NoShape,
            frontmatter |-> "", legacy_imports |-> FALSE]
      [] OTHER ->
           [compiles |-> TRUE, runs |-> TRUE, classes |-> {},
            has_valves |-> FALSE, valves |-> NoShape,
            has_user_valves |-> FALSE, user_valves |-> NoShape,
            frontmatter |-> "", legacy_imports |-> FALSE]

\* replace_imports: legacy import lines are remapped, the rest passes through.
\* "cOld" is "cA" written with the legacy imports.
replace_imports(c) == IF Source(c).legacy_imports THEN "cA" ELSE c

NoModule == "no_module"

\* load_function_module_by_id(id, content=...): compile, execute, classify.
load_function_module(c) ==
    IF ~Source(c).compiles THEN
        [ok |-> FALSE, error |-> "Syntax", module |-> NoModule,
         type |-> "none", frontmatter |-> Source(c).frontmatter]
    ELSE IF ~Source(c).runs THEN
        [ok |-> FALSE, error |-> "Runtime", module |-> NoModule,
         type |-> "none", frontmatter |-> Source(c).frontmatter]
    ELSE IF "Filter" \in Source(c).classes THEN
        [ok |-> TRUE, error |-> "none", module |-> c,
         type |-> "filter", frontmatter |-> Source(c).frontmatter]
    ELSE IF "Action" \in Source(c).classes THEN
        [ok |-> TRUE, error |-> "none", module |-> c,
         type |-> "action", frontmatter |-> Source(c).frontmatter]
    ELSE IF "Pipe" \in Source(c).classes THEN
        [ok |-> TRUE, error |-> "none", module |-> c,
         type |-> "pipe", frontmatter |-> Source(c).frontmatter]
    ELSE
        [ok |-> FALSE, error |-> "MissingEntryPoint", module |-> NoModule,
         type |-> "none", frontmatter |-> Source(c).frontmatter]

\* hasattr(function_module, "Valves") and function_module.Valves
HasValves(m) == m # NoModule /\ Source(m).has_valves
ValvesOf(m) == Source(m).valves

\* hasattr(function_module, "UserValves") and function_module.UserValves
HasUserValves(m) == m # NoModule /\ Source(m).has_user_valves
UserValvesOf(m) == Source(m).user_valves

-----------------------------------------------------------------------------
(* Valve values. A value is a JSON scalar: "i:n" the integer n, "s:t" the  *)
(* string t, "null" the null.                                              *)

IntValues == {"i:1", "i:2", "i:5"}
StrValues == {"s:x", "s:abc", "s:5"}
Null == "null"
Invalid == "invalid"

\* The validation of one value against a field's declared type, as the
\* model class does it: an integer field takes an integer or a string of
\* digits, a string field takes a string only.
Coerce(type, v) ==
    IF type = "int" THEN
        IF v \in IntValues THEN v
        ELSE IF v = "s:5" THEN "i:5"
        ELSE Invalid
    ELSE
        IF v \in StrValues THEN v ELSE Invalid

NoValves == [k \in {} |-> Null]

\* An update map passed on with its nulls.
KeepNulls(form) == form

\* {k: v for k, v in form_data.items() if v is not None}
DropNulls(form) ==
    [k \in {x \in DOMAIN form : form[x] # Null} |-> form[k]]

\* Valves(**form_data).model_dump(): every declared field, from the form
\* when the form has it and from the declared default otherwise; keys the
\* shape does not declare are ignored.
ModelDump(shape, form) ==
    [k \in DOMAIN shape |->
        IF k \in DOMAIN form THEN Coerce(shape[k].type, form[k])
                             ELSE shape[k].default]

\* A validation that accepts every value.
ModelValidUnchecked(shape, form) == TRUE

\* Whether Valves(**form_data) is constructed: every field validates.
ModelValid(shape, form) ==
    \A k \in DOMAIN shape : ModelDump(shape, form)[k] # Invalid

\* The update maps a valve request carries.
ValveForms ==
    { NoValves,
      [k \in {"a"} |-> "i:5"],
      [k \in {"b"} |-> "i:5"],
      [k \in {"a"} |-> "s:abc"],
      [k \in {"a"} |-> "s:5"],
      [k \in {"a", "b"} |-> IF k = "a" THEN "i:5" ELSE Null],
      [k \in {"a", "b"} |-> "i:5"] }

Users == {"admin", "u1"}

-----------------------------------------------------------------------------
(* The persistence gateway (Functions).                                    *)

NoRecord == [exists |-> FALSE, content |-> "none", type |-> "none",
             manifest |-> "none", is_active |-> FALSE, is_global |-> FALSE,
             valves |-> NoValves]

\* Functions.get_function_by_id
get_function_by_id(d, id) == IF id \in DOMAIN d THEN d[id] ELSE NoRecord

\* Functions.insert_new_function: the new record, or nothing on a duplicate.
insert_new_function(d, id, type, content, manifest) ==
    IF id \notin DOMAIN d \/ d[id].exists THEN [ok |-> FALSE, db |-> d]
    ELSE [ok |-> TRUE,
          db |-> [d EXCEPT ![id] =
                    [exists |-> TRUE, content |-> content, type |-> type,
                     manifest |-> manifest, is_active |-> FALSE,
                     is_global |-> FALSE, valves |-> NoValves]]]

\* A record with the fields of a partial document written over its own.
Patched(record, partial) ==
    [field \in DOMAIN record |->
        IF field \in DOMAIN partial THEN partial[field] ELSE record[field]]

\* Functions.update_function_by_id(id, partial): the record of that id with
\* the fields of partial set, or nothing when there is no record of that id.
\* A partial that carries an "id" renames the record, which fails when the
\* new id is taken.
update_function_fields(d, id, partial) ==
    IF id \notin DOMAIN d \/ ~d[id].exists THEN [ok |-> FALSE, db |-> d]
    ELSE IF "id" \in DOMAIN partial /\ partial["id"] # id THEN
        IF partial["id"] \notin DOMAIN d \/ d[partial["id"]].exists
        THEN [ok |-> FALSE, db |-> d]
        ELSE [ok |-> TRUE,
              db |-> [d EXCEPT ![id] = NoRecord,
                               ![partial["id"]] = Patched(d[id], partial)]]
    ELSE [ok |-> TRUE, db |-> [d EXCEPT ![id] = Patched(d[id], partial)]]

\* Functions.update_function_by_id with the content fields of the form:
\* the updated record, or nothing when there is no record of that id.
update_function_content(d, id, type, content, manifest) ==
    update_function_fields(d, id, [content |-> content, type |-> type,
                                   manifest |-> manifest])

\* Functions.delete_function_by_id: whether a record was deleted.
delete_function(d, id) ==
    IF id \notin DOMAIN d \/ ~d[id].exists THEN [ok |-> FALSE, db |-> d]
    ELSE [ok |-> TRUE, db |-> [d EXCEPT ![id] = NoRecord]]

\* Functions.update_function_valves_by_id
update_function_valves(d, id, valves) ==
    IF id \notin DOMAIN d \/ ~d[id].exists THEN d
    ELSE [d EXCEPT ![id].valves = valves]

\* Functions.update_user_valves_by_id_and_user_id
update_user_valves(uv, id, user, valves) ==
    [uv EXCEPT ![<<id, user>>] = valves]

\* Functions.get_function_valves_by_id
get_function_valves(d, id) == get_function_by_id(d, id).valves

\* Functions.get_user_valves_by_id_and_user_id: what is stored for the
\* pair, the empty document when nothing is.
get_user_valves(uv, id, user) == uv[<<id, user>>]

-----------------------------------------------------------------------------
(* Responses.                                                              *)

Response(op, id, status, prev) ==
    [op |-> op, id |-> id, status |-> status, prev |-> prev]

Idle == [op |-> "none", id |-> <<>>, content |-> "none", type |-> "none",
         manifest |-> "none", old |-> "none", flag |-> FALSE, pc |-> "none"]

-----------------------------------------------------------------------------
(* The tables of the prompts and models routers. A prompt or a model has   *)
(* an owner, an access control list and a body.                            *)

Commands == {"/p"}
ModelIds == {"m"}

\* The users, in the order of their creation. The first of them signed up
\* as the admin; every user has a credential record with the same email.
UserIds == {"u0", "u1", "u2"}
Created(id) == CASE id = "u0" -> 0 [] id = "u1" -> 1 [] OTHER -> 2
FirstRole(id) == IF id = "u0" THEN "admin" ELSE "user"
FirstEmail(id) == CASE id = "u0" -> "a@x" [] id = "u1" -> "b@x" [] OTHER -> "c@x"

NoResource == [exists |-> FALSE, user_id |-> "none", readers |-> {},
               content |-> "none"]

-----------------------------------------------------------------------------
(* The handlers.                                                           *)

Init ==
    /\ db = [id \in Keys |-> NoRecord]
    /\ user_valves = [k \in Keys \X Users |-> NoValves]
    /\ FUNCTIONS = [id \in Keys |-> NoModule]
    /\ cache_dirs = {}
    /\ inflight = Idle
    /\ last = Response("none", <<>>, "none", "none")
    /\ body = NoValves
    /\ env = TRUE
    /\ peer = [name |-> "B", FUNCTIONS |-> [id \in Keys |-> NoModule],
               inflight |-> Idle]
    /\ prompts = [command \in Commands |-> NoResource]
    /\ models = [id \in ModelIds |-> NoResource]
    /\ user_table = [id \in UserIds |->
                       [exists |-> TRUE, role |-> FirstRole(id),
                        email |-> FirstEmail(id)]]
    /\ auth_table = [id \in UserIds |->
                       [exists |-> TRUE, email |-> FirstEmail(id)]]

\* The manifests a form arrives with.
SuppliedManifests == {"", "title: client"}

\* The manifest of the form left as the client supplied it.
manifest_supplied(supplied, frontmatter) == supplied

\* form_data.meta.manifest = frontmatter
manifest_of_form(supplied, frontmatter) == frontmatter

\* A create that makes no cache directory.
create_without_cache_dir(id, content) ==
    \E supplied \in SuppliedManifests :
    LET fid == Lower(id)
        rewritten == replace_imports(content)
        loaded == load_function_module(rewritten)
        inserted == insert_new_function(db, fid, loaded.type, rewritten,
                                        manifest_of_form(supplied, loaded.frontmatter))
    IN  IF ~loaded.ok THEN
           /\ last' = Response("create", id, "error_load", "none")
           /\ UNCHANGED <<db, user_valves, FUNCTIONS, cache_dirs, inflight, body, env, peer, stores>>
        ELSE
           /\ FUNCTIONS' = [FUNCTIONS EXCEPT ![fid] = loaded.module]
           /\ db' = inserted.db
           /\ last' = Response("create", id,
                               IF inserted.ok THEN "ok" ELSE "error_persist",
                               "none")
           /\ UNCHANGED <<user_valves, cache_dirs, inflight, body, env, peer, stores>>

\* create_new_function from the try block on: rewrite, load, registry
\* write, insert, cache directory, response.
create_load_and_commit(id, content) ==
    \E supplied \in SuppliedManifests :
    LET fid == Lower(id)
        rewritten == replace_imports(content)
        loaded == load_function_module(rewritten)
        inserted == insert_new_function(db, fid, loaded.type, rewritten,
                                        manifest_of_form(supplied, loaded.frontmatter))
    IN  IF ~loaded.ok THEN
           /\ last' = Response("create", id, "error_load", "none")
           /\ UNCHANGED <<db, user_valves, FUNCTIONS, cache_dirs, inflight, body, env, peer, stores>>
        ELSE
           /\ FUNCTIONS' = [FUNCTIONS EXCEPT ![fid] = loaded.module]
           /\ db' = inserted.db
           /\ cache_dirs' = cache_dirs \cup {fid}
           /\ last' = Response("create", id,
                               IF inserted.ok THEN "ok" ELSE "error_persist",
                               "none")
           /\ UNCHANGED <<user_valves, inflight, body, env, peer, stores>>

\* A create that skips the lookup of an existing record.
create_overwriting(id, content) == create_load_and_commit(id, content)

\* create_new_function once the id is accepted: lower it, look it up.
create_with_valid_id(id, content) ==
    IF get_function_by_id(db, Lower(id)).exists THEN
       /\ last' = Response("create", id, "id_taken", "none")
       /\ UNCHANGED <<db, user_valves, FUNCTIONS, cache_dirs, inflight, body, env, peer, stores>>
    ELSE create_load_and_commit(id, content)

\* A create that skips the isidentifier check.
create_unchecked_id(id, content) ==
    /\ inflight = Idle
    /\ create_with_valid_id(id, content)

\* POST /create
create_new_function(id, content) ==
    /\ inflight = Idle
    /\ IF ~IsIdentifier(id) THEN
          /\ last' = Response("create", id, "invalid_id", "none")
          /\ UNCHANGED <<db, user_valves, FUNCTIONS, cache_dirs, inflight, body, env, peer, stores>>
       ELSE create_with_valid_id(id, content)

\* An update that persists the submitted content before it loads it.
update_persisting_first(id, content) ==
    /\ inflight = Idle
    /\ \E supplied \in SuppliedManifests :
       LET rewritten == replace_imports(content)
           loaded == load_function_module(rewritten)
           updated == update_function_content(db, id, loaded.type, rewritten,
                                              manifest_of_form(supplied, loaded.frontmatter))
           old == get_function_by_id(db, id).content
       IN  /\ db' = updated.db
           /\ FUNCTIONS' = IF loaded.ok THEN [FUNCTIONS EXCEPT ![id] = loaded.module]
                           ELSE FUNCTIONS
           /\ last' = Response("update", id,
                               IF ~loaded.ok THEN "error_load"
                               ELSE IF updated.ok THEN "ok" ELSE "error_persist",
                               old)
           /\ UNCHANGED <<user_valves, cache_dirs, inflight, body, env, peer, stores>>

\* The whole form as the partial document, its id included.
dumped_with_id(form_id, content, manifest, type) ==
    [id |-> form_id, content |-> content, manifest |-> manifest, type |-> type]

\* {**form_data.model_dump(exclude={"id"}), "type": function_type}
dumped_without_id(form_id, content, manifest, type) ==
    [content |-> content, manifest |-> manifest, type |-> type]

\* POST /id/{id}/update with a form that carries the id form_id
update_with_form(id, form_id, content) ==
    /\ inflight = Idle
    /\ \E supplied \in SuppliedManifests :
       LET rewritten == replace_imports(content)
           loaded == load_function_module(rewritten)
           updated == update_function_fields(db, id,
                          dumped_without_id(form_id, rewritten,
                                            manifest_of_form(supplied, loaded.frontmatter), loaded.type))
           old == get_function_by_id(db, id).content
       IN  IF ~loaded.ok THEN
              /\ last' = Response("update", id, "error_load", old)
              /\ UNCHANGED <<db, user_valves, FUNCTIONS, cache_dirs, inflight, body, env, peer, stores>>
           ELSE
              /\ FUNCTIONS' = [FUNCTIONS EXCEPT ![id] = loaded.module]
              /\ db' = updated.db
              /\ last' = Response("update", id,
                                  IF updated.ok THEN "ok" ELSE "error_persist",
                                  old)
              /\ UNCHANGED <<user_valves, cache_dirs, inflight, body, env, peer, stores>>

\* POST /id/{id}/update with a form that carries the id of the path
update_function_by_id(id, content) == update_with_form(id, id, content)

\* A delete that empties the whole registry.
delete_clearing_registry(id) ==
    /\ inflight = Idle
    /\ LET result == delete_function(db, id)
       IN  /\ db' = result.db
           /\ FUNCTIONS' = IF result.ok THEN [k \in Keys |-> NoModule]
                           ELSE FUNCTIONS
           /\ last' = Response("delete", id,
                               IF result.ok THEN "true" ELSE "false", "none")
           /\ UNCHANGED <<user_valves, cache_dirs, inflight, body, env, peer, stores>>

\* DELETE /id/{id}/delete
delete_function_by_id(id) ==
    /\ inflight = Idle
    /\ LET result == delete_function(db, id)
       IN  /\ db' = result.db
           /\ FUNCTIONS' = IF result.ok THEN [FUNCTIONS EXCEPT ![id] = NoModule]
                           ELSE FUNCTIONS
           /\ last' = Response("delete", id,
                               IF result.ok THEN "true" ELSE "false", "none")
           /\ UNCHANGED <<user_valves, cache_dirs, inflight, body, env, peer, stores>>

\* A partial document that switches the function on whatever its state.
activated(function) == [is_active |-> TRUE]

\* {"is_active": not function.is_active}
flipped_is_active(function) == [is_active |-> ~function.is_active]

\* Functions.update_function_by_id(id, {"is_active": not function.is_active})
toggle_is_active(d, id) ==
    update_function_fields(d, id, flipped_is_active(get_function_by_id(d, id)))

\* POST /id/{id}/toggle
toggle_function_by_id(id) ==
    /\ inflight = Idle
    /\ LET function == get_function_by_id(db, id)
           updated == toggle_is_active(db, id)
       IN  IF ~function.exists THEN
              /\ last' = Response("toggle", id, "not_found", "none")
              /\ UNCHANGED <<db, user_valves, FUNCTIONS, cache_dirs, inflight, body, env, peer, stores>>
           ELSE
              /\ db' = updated.db
              /\ last' = Response("toggle", id,
                                  IF updated.ok THEN "ok" ELSE "error_persist",
                                  "none")
              /\ UNCHANGED <<user_valves, FUNCTIONS, cache_dirs, inflight, body, env, peer, stores>>

\* The partial document of the is_global toggle, flipping is_active too.
flipped_both(function) ==
    [is_global |-> ~function.is_global, is_active |-> ~function.is_active]

\* {"is_global": not function.is_global}
flipped_is_global(function) == [is_global |-> ~function.is_global]

\* POST /id/{id}/toggle/global
toggle_global_by_id(id) ==
    /\ inflight = Idle
    /\ LET function == get_function_by_id(db, id)
           updated == update_function_fields(db, id, flipped_is_global(function))
       IN  IF ~function.exists THEN
              /\ last' = Response("toggle_global", id, "not_found", "none")
              /\ UNCHANGED <<db, user_valves, FUNCTIONS, cache_dirs, inflight, body, env, peer, stores>>
           ELSE
              /\ db' = updated.db
              /\ last' = Response("toggle_global", id,
                                  IF updated.ok THEN "ok" ELSE "error_persist",
                                  "none")
              /\ UNCHANGED <<user_valves, FUNCTIONS, cache_dirs, inflight, body, env, peer, stores>>

\* load_function_module_by_id(id) without content: the source is fetched
\* from the gateway.
load_function_module_by_id(d, id) ==
    load_function_module(replace_imports(get_function_by_id(d, id).content))

\* A lookup that loads from the persisted content whatever the registry
\* holds.
always_loaded(reg, d, id) ==
    LET loaded == load_function_module_by_id(d, id)
    IN  IF loaded.ok
        THEN [ok |-> TRUE, module |-> loaded.module,
              registry |-> [reg EXCEPT ![id] = loaded.module]]
        ELSE [ok |-> FALSE, module |-> NoModule, registry |-> reg]

\* A lookup that on a miss loads the module and does not store it.
loaded_not_stored(reg, d, id) ==
    IF reg[id] # NoModule THEN [ok |-> TRUE, module |-> reg[id], registry |-> reg]
    ELSE LET loaded == load_function_module_by_id(d, id)
         IN  IF loaded.ok
             THEN [ok |-> TRUE, module |-> loaded.module, registry |-> reg]
             ELSE [ok |-> FALSE, module |-> NoModule, registry |-> reg]

\* The cached module of id, or on a miss the module loaded from the
\* persisted content, which is then stored in the registry.
cached_or_loaded(reg, d, id) ==
    IF reg[id] # NoModule THEN [ok |-> TRUE, module |-> reg[id], registry |-> reg]
    ELSE LET loaded == load_function_module_by_id(d, id)
         IN  IF loaded.ok
             THEN [ok |-> TRUE, module |-> loaded.module,
                   registry |-> [reg EXCEPT ![id] = loaded.module]]
             ELSE [ok |-> FALSE, module |-> NoModule, registry |-> reg]

\* The schema read without the lookup of the record: the registry and the
\* loader are asked at once.
valves_spec_without_lookup(id) ==
    /\ inflight = Idle
    /\ LET got == cached_or_loaded(FUNCTIONS, db, id)
       IN  IF ~got.ok THEN
              /\ last' = Response("valves_spec", id, "unhandled", "none")
              /\ UNCHANGED <<db, user_valves, FUNCTIONS, cache_dirs, inflight, body, env, peer, stores>>
           ELSE
              /\ FUNCTIONS' = got.registry
              /\ last' = Response("valves_spec", id,
                                  IF HasValves(got.module) THEN "ok" ELSE "null",
                                  "none")
              /\ UNCHANGED <<db, user_valves, cache_dirs, inflight, body, env, peer, stores>>

\* GET /id/{id}/valves/spec
get_function_valves_spec_by_id(id) ==
    /\ inflight = Idle
    /\ LET got == cached_or_loaded(FUNCTIONS, db, id)
       IN  IF ~get_function_by_id(db, id).exists THEN
              /\ last' = Response("valves_spec", id, "not_found", "none")
              /\ UNCHANGED <<db, user_valves, FUNCTIONS, cache_dirs, inflight, body, env, peer, stores>>
           ELSE IF ~got.ok THEN
              /\ last' = Response("valves_spec", id, "unhandled", "none")
              /\ UNCHANGED <<db, user_valves, FUNCTIONS, cache_dirs, inflight, body, env, peer, stores>>
           ELSE
              /\ FUNCTIONS' = got.registry
              /\ last' = Response("valves_spec", id,
                                  IF HasValves(got.module) THEN "ok" ELSE "null",
                                  "none")
              /\ UNCHANGED <<db, user_valves, cache_dirs, inflight, body, env, peer, stores>>

\* POST /id/{id}/valves/update
update_function_valves_by_id(id, form_data) ==
    /\ inflight = Idle
    /\ LET got == cached_or_loaded(FUNCTIONS, db, id)
           form == DropNulls(form_data)
       IN  IF ~get_function_by_id(db, id).exists THEN
              /\ last' = Response("valves_update", id, "not_found", "none")
              /\ UNCHANGED <<db, user_valves, FUNCTIONS, cache_dirs, inflight, body, env, peer, stores>>
           ELSE IF ~got.ok THEN
              /\ last' = Response("valves_update", id, "unhandled", "none")
              /\ UNCHANGED <<db, user_valves, FUNCTIONS, cache_dirs, inflight, body, env, peer, stores>>
           ELSE IF ~HasValves(got.module) THEN
              /\ FUNCTIONS' = got.registry
              /\ last' = Response("valves_update", id, "not_found", "none")
              /\ UNCHANGED <<db, user_valves, cache_dirs, inflight, body, env, peer, stores>>
           ELSE IF ~ModelValid(ValvesOf(got.module), form) THEN
              /\ FUNCTIONS' = got.registry
              /\ last' = Response("valves_update", id, "error_validation", "none")
              /\ UNCHANGED <<db, user_valves, cache_dirs, inflight, body, env, peer, stores>>
           ELSE
              /\ FUNCTIONS' = got.registry
              /\ db' = update_function_valves(db, id,
                                              ModelDump(ValvesOf(got.module), form))
              /\ last' = Response("valves_update", id, "ok", "none")
              /\ UNCHANGED <<user_valves, cache_dirs, inflight, body, env, peer, stores>>

\* GET /id/{id}/valves/user/spec
get_function_user_valves_spec_by_id(id, user) ==
    /\ inflight = Idle
    /\ LET got == cached_or_loaded(FUNCTIONS, db, id)
       IN  IF ~get_function_by_id(db, id).exists THEN
              /\ last' = Response("user_valves_spec", id, "not_found", "none")
              /\ UNCHANGED <<db, user_valves, FUNCTIONS, cache_dirs, inflight, body, env, peer, stores>>
           ELSE IF ~got.ok THEN
              /\ last' = Response("user_valves_spec", id, "unhandled", "none")
              /\ UNCHANGED <<db, user_valves, FUNCTIONS, cache_dirs, inflight, body, env, peer, stores>>
           ELSE
              /\ FUNCTIONS' = got.registry
              /\ last' = Response("user_valves_spec", id,
                                  IF HasUserValves(got.module) THEN "ok" ELSE "null",
                                  "none")
              /\ UNCHANGED <<db, user_valves, cache_dirs, inflight, body, env, peer, stores>>

\* A write of the validated values under the admin's user id.
set_user_valves_of_admin(uv, id, user, valves) ==
    update_user_valves(uv, id, "admin", valves)

\* Functions.update_user_valves_by_id_and_user_id(id, user.id, ...): the
\* validated values go under the id of the path and the caller's user id.
set_own_user_valves(uv, id, user, valves) ==
    update_user_valves(uv, id, user, valves)

\* POST /id/{id}/valves/user/update
update_function_user_valves_by_id(id, user, form_data) ==
    /\ inflight = Idle
    /\ LET got == cached_or_loaded(FUNCTIONS, db, id)
           form == DropNulls(form_data)
       IN  IF ~get_function_by_id(db, id).exists THEN
              /\ last' = Response("user_valves_update", id, "not_found", "none")
              /\ UNCHANGED <<db, user_valves, FUNCTIONS, cache_dirs, inflight, body, env, peer, stores>>
           ELSE IF ~got.ok THEN
              /\ last' = Response("user_valves_update", id, "unhandled", "none")
              /\ UNCHANGED <<db, user_valves, FUNCTIONS, cache_dirs, inflight, body, env, peer, stores>>
           ELSE IF ~HasUserValves(got.module) THEN
              /\ FUNCTIONS' = got.registry
              /\ last' = Response("user_valves_update", id, "not_found", "none")
              /\ UNCHANGED <<db, user_valves, cache_dirs, inflight, body, env, peer, stores>>
           ELSE IF ~ModelValid(UserValvesOf(got.module), form) THEN
              /\ FUNCTIONS' = got.registry
              /\ last' = Response("user_valves_update", id, "error_validation", "none")
              /\ UNCHANGED <<db, user_valves, cache_dirs, inflight, body, env, peer, stores>>
           ELSE
              /\ FUNCTIONS' = got.registry
              /\ user_valves' = set_own_user_valves(user_valves, id, user,
                                    ModelDump(UserValvesOf(got.module), form))
              /\ last' = Response("user_valves_update", id, "ok", "none")
              /\ UNCHANGED <<db, cache_dirs, inflight, body, env, peer, stores>>

\* GET /id/{id}/valves
get_function_valves_by_id(id) ==
    /\ inflight = Idle
    /\ IF ~get_function_by_id(db, id).exists THEN
          /\ last' = Response("valves_get", id, "not_found", "none")
          /\ UNCHANGED <<db, user_valves, FUNCTIONS, cache_dirs, inflight, body, env, peer, stores>>
       ELSE
          /\ body' = get_function_valves(db, id)
          /\ last' = Response("valves_get", id, "ok", "none")
          /\ UNCHANGED <<db, user_valves, FUNCTIONS, cache_dirs, inflight, env, peer, stores>>

\* GET /id/{id}/valves/user
get_function_user_valves_by_id(id, user) ==
    /\ inflight = Idle
    /\ IF ~get_function_by_id(db, id).exists THEN
          /\ last' = Response("user_valves_get", id, "not_found", "none")
          /\ UNCHANGED <<db, user_valves, FUNCTIONS, cache_dirs, inflight, body, env, peer, stores>>
       ELSE
          /\ body' = get_user_valves(user_valves, id, user)
          /\ last' = Response("user_valves_get", id, "ok", "none")
          /\ UNCHANGED <<db, user_valves, FUNCTIONS, cache_dirs, inflight, env, peer, stores>>

\* GET /id/{id}
get_function(id) ==
    /\ inflight = Idle
    /\ last' = Response("get", id,
                        IF get_function_by_id(db, id).exists THEN "ok"
                                                             ELSE "not_found",
                        "none")
    /\ UNCHANGED <<db, user_valves, FUNCTIONS, cache_dirs, inflight, body, env, peer, stores>>

\* A process restart: the registry lives in process memory only.
Restart ==
    /\ inflight = Idle
    /\ FUNCTIONS' = [id \in Keys |-> NoModule]
    /\ last' = Response("restart", <<>>, "none", "none")
    /\ UNCHANGED <<db, user_valves, cache_dirs, inflight, body, env, peer, stores>>

Next ==
    \/ \E id \in IdStrings, c \in Contents : create_new_function(id, c)
    \/ \E id \in PathIds, c \in Contents : update_function_by_id(id, c)
    \/ \E id \in PathIds : delete_function_by_id(id)
    \/ \E id \in PathIds : get_function_valves_spec_by_id(id)
    \/ \E id \in PathIds, f \in ValveForms : update_function_valves_by_id(id, f)
    \/ \E id \in PathIds, u \in Users : get_function_user_valves_spec_by_id(id, u)
    \/ \E id \in PathIds, u \in Users, f \in ValveForms :
          update_function_user_valves_by_id(id, u, f)
    \/ Restart

Spec == Init /\ [][Next]_vars

-----------------------------------------------------------------------------
(* The update handler statement by statement: first the rewrite, the load  *)
(* and the registry write (lines 247-254), then the persistence write and  *)
(* the response (lines 256-267). No other handler of the process runs in   *)
(* between.                                                                *)

\* The update statements with the persistence write moved before the
\* registry write.
update_steps_persisting_first(id, content) ==
    \/ /\ inflight = Idle
       /\ \E supplied \in SuppliedManifests :
          LET rewritten == replace_imports(content)
              loaded == load_function_module(rewritten)
              old == get_function_by_id(db, id).content
              updated == update_function_content(db, id, loaded.type, rewritten,
                                                 manifest_of_form(supplied, loaded.frontmatter))
          IN  IF ~loaded.ok THEN
                 /\ last' = Response("update", id, "error_load", old)
                 /\ UNCHANGED <<db, user_valves, FUNCTIONS, cache_dirs, inflight, body, env, peer, stores>>
              ELSE
                 /\ db' = updated.db
                 /\ inflight' = [op |-> "update", id |-> id, content |-> rewritten,
                                 type |-> loaded.type,
                                 manifest |-> manifest_of_form(supplied, loaded.frontmatter), old |-> old,
                                 flag |-> FALSE, pc |-> "persist"]
                 /\ UNCHANGED <<FUNCTIONS, user_valves, cache_dirs, last, body, env, peer, stores>>
    \/ /\ inflight.op = "update"
       /\ inflight.id = id
       /\ FUNCTIONS' = [FUNCTIONS EXCEPT ![id] = inflight.content]
       /\ last' = Response("update", inflight.id,
                           IF db[id].exists THEN "ok" ELSE "error_persist",
                           inflight.old)
       /\ inflight' = Idle
       /\ UNCHANGED <<db, user_valves, cache_dirs, body, env, peer, stores>>

update_function_by_id_steps(id, content) ==
    \/ /\ inflight = Idle
       /\ \E supplied \in SuppliedManifests :
          LET rewritten == replace_imports(content)
              loaded == load_function_module(rewritten)
              old == get_function_by_id(db, id).content
          IN  IF ~loaded.ok THEN
                 /\ last' = Response("update", id, "error_load", old)
                 /\ UNCHANGED <<db, user_valves, FUNCTIONS, cache_dirs, inflight, body, env, peer, stores>>
              ELSE
                 /\ FUNCTIONS' = [FUNCTIONS EXCEPT ![id] = loaded.module]
                 /\ inflight' = [op |-> "update", id |-> id, content |-> rewritten,
                                 type |-> loaded.type,
                                 manifest |-> manifest_of_form(supplied, loaded.frontmatter), old |-> old,
                                 flag |-> FALSE, pc |-> "persist"]
                 /\ UNCHANGED <<db, user_valves, cache_dirs, last, body, env, peer, stores>>
    \/ /\ inflight.op = "update"
       /\ inflight.id = id
       /\ LET updated == update_function_content(db, inflight.id, inflight.type,
                                                 inflight.content, inflight.manifest)
          IN  /\ db' = updated.db
              /\ last' = Response("update", inflight.id,
                                  IF updated.ok THEN "ok" ELSE "error_persist",
                                  inflight.old)
              /\ inflight' = Idle
              /\ UNCHANGED <<user_valves, FUNCTIONS, cache_dirs, body, env, peer, stores>>

NextSteps ==
    \/ \E id \in IdStrings, c \in Contents : create_new_function(id, c)
    \/ \E id \in PathIds, c \in Contents : update_function_by_id_steps(id, c)
    \/ \E id \in PathIds : delete_function_by_id(id)
    \/ \E id \in PathIds : get_function_valves_spec_by_id(id)
    \/ \E id \in PathIds, f \in ValveForms : update_function_valves_by_id(id, f)
    \/ Restart

SpecSteps == Init /\ [][NextSteps]_vars

-----------------------------------------------------------------------------
(* Two requests in one process. Each request is a coroutine of the event   *)
(* loop of the process: the loop passes from one to the other only where   *)
(* the running one awaits. Both see the same registry and the same tables. *)

\* An event loop that may leave an update between two of its statements.
AwaitsInUpdate(position) == position.op = "update"

\* An event loop that may leave a schema read between two of its statements.
AwaitsInLoad(position) == position.op = "valves_spec"

\* Whether the handler at this position is at an await: the bodies of the
\* handlers hold none.
Awaits(position) == FALSE

OtherName(name) == IF name = "A" THEN "B" ELSE "A"

\* The event loop runs the other coroutine.
SwitchCoroutine ==
    /\ inflight = Idle \/ Awaits(inflight)
    /\ inflight' = peer.inflight
    /\ peer' = [peer EXCEPT !.inflight = inflight, !.name = OtherName(@)]
    /\ UNCHANGED <<db, user_valves, FUNCTIONS, cache_dirs, last, body, env, stores>>

\* GET /id/{id}/valves/spec statement by statement: the lookup of the
\* record and of the registry entry (lines 360-363), on a miss the load
\* from the persisted content (line 365), then the registry write (line
\* 366) and the response (lines 368-371).
get_function_valves_spec_by_id_steps(id) ==
    \/ /\ inflight = Idle
       /\ IF ~get_function_by_id(db, id).exists THEN
             /\ last' = Response("valves_spec", id, "not_found", "none")
             /\ UNCHANGED <<db, user_valves, FUNCTIONS, cache_dirs, inflight, body, env, peer, stores>>
          ELSE IF FUNCTIONS[id] # NoModule THEN
             /\ last' = Response("valves_spec", id,
                                 IF HasValves(FUNCTIONS[id]) THEN "ok" ELSE "null",
                                 "none")
             /\ UNCHANGED <<db, user_valves, FUNCTIONS, cache_dirs, inflight, body, env, peer, stores>>
          ELSE
             /\ inflight' = [Idle EXCEPT !.op = "valves_spec", !.id = id,
                                         !.pc = "load"]
             /\ UNCHANGED <<db, user_valves, FUNCTIONS, cache_dirs, last, body, env, peer, stores>>
    \/ /\ inflight.op = "valves_spec"
       /\ inflight.id = id
       /\ inflight.pc = "load"
       /\ LET loaded == load_function_module_by_id(db, id)
          IN  IF ~loaded.ok THEN
                 /\ last' = Response("valves_spec", id, "unhandled", "none")
                 /\ inflight' = Idle
                 /\ UNCHANGED <<db, user_valves, FUNCTIONS, cache_dirs, body, env, peer, stores>>
              ELSE
                 /\ inflight' = [inflight EXCEPT !.content = loaded.module,
                                                 !.pc = "store"]
                 /\ UNCHANGED <<db, user_valves, FUNCTIONS, cache_dirs, last, body, env, peer, stores>>
    \/ /\ inflight.op = "valves_spec"
       /\ inflight.id = id
       /\ inflight.pc = "store"
       /\ FUNCTIONS' = [FUNCTIONS EXCEPT ![id] = inflight.content]
       /\ last' = Response("valves_spec", id,
                           IF HasValves(inflight.content) THEN "ok" ELSE "null",
                           "none")
       /\ inflight' = Idle
       /\ UNCHANGED <<db, user_valves, cache_dirs, body, env, peer, stores>>

\* A restart of the process, with no request under way.
RestartProcess ==
    /\ peer.inflight = Idle
    /\ Restart

IdStringsOne == { <<"f">> }
ContentsCreated == {"cC"}
ContentsUpdated == {"cA", "cB"}

NextCoroutines ==
    \/ \E id \in IdStringsOne, c \in ContentsCreated : create_new_function(id, c)
    \/ \E id \in IdStringsOne, c \in ContentsUpdated :
          update_function_by_id_steps(id, c)
    \/ \E id \in IdStringsOne : delete_function_by_id(id)
    \/ \E id \in IdStringsOne : get_function_valves_spec_by_id_steps(id)
    \/ RestartProcess
    \/ SwitchCoroutine

SpecCoroutines == Init /\ [][NextCoroutines]_vars

-----------------------------------------------------------------------------
(* Two instances of the process over the same tables. Each instance has    *)
(* its own registry and runs its own requests; the steps of the two        *)
(* interleave freely.                                                      *)

\* The next step is taken by the other instance.
SwitchInstance ==
    /\ FUNCTIONS' = peer.FUNCTIONS
    /\ inflight' = peer.inflight
    /\ peer' = [name |-> OtherName(peer.name), FUNCTIONS |-> FUNCTIONS,
                inflight |-> inflight]
    /\ UNCHANGED <<db, user_valves, cache_dirs, last, body, env, stores>>

\* POST /id/{id}/toggle statement by statement: the read of the record
\* (line 168), then the write of the flipped flag and the response (lines
\* 169-180).
toggle_function_by_id_steps(id) ==
    \/ /\ inflight = Idle
       /\ LET function == get_function_by_id(db, id)
          IN  IF ~function.exists THEN
                 /\ last' = Response("toggle", id, "not_found", "none")
                 /\ UNCHANGED <<db, user_valves, FUNCTIONS, cache_dirs, inflight, body, env, peer, stores>>
              ELSE
                 /\ inflight' = [Idle EXCEPT !.op = "toggle", !.id = id,
                                             !.flag = function.is_active,
                                             !.pc = "write"]
                 /\ UNCHANGED <<db, user_valves, FUNCTIONS, cache_dirs, last, body, env, peer, stores>>
    \/ /\ inflight.op = "toggle"
       /\ inflight.id = id
       /\ LET updated == update_function_fields(db, id,
                                                [is_active |-> ~inflight.flag])
          IN  /\ db' = updated.db
              /\ last' = Response("toggle", id,
                                  IF updated.ok THEN "ok" ELSE "error_persist",
                                  "none")
              /\ inflight' = Idle
              /\ UNCHANGED <<user_valves, FUNCTIONS, cache_dirs, body, env, peer, stores>>

NextInstances ==
    \/ \E id \in IdStringsOne, c \in ContentsUpdated : create_new_function(id, c)
    \/ \E id \in IdStringsOne, c \in ContentsUpdated : update_function_by_id(id, c)
    \/ \E id \in IdStringsOne : get_function_valves_spec_by_id(id)
    \/ \E id \in IdStringsOne : toggle_function_by_id_steps(id)
    \/ SwitchInstance

SpecInstances == Init /\ [][NextInstances]_vars

-----------------------------------------------------------------------------
(* The handlers together with the toggles, a source text without valve     *)
(* shapes and a source text whose load depends on the environment of the   *)
(* process.                                                                *)

IdStringsOps == { <<"f">> }
PathIdsOps == { <<"f">> }
UsersOps == {"u1"}
ValveFormsOps == { [k \in {"a"} |-> "i:5"], [k \in {"a"} |-> "s:abc"] }

\* What a source text needs at run time appears or goes away.
EnvChange ==
    /\ inflight = Idle
    /\ env' = ~env
    /\ last' = Response("env_change", <<>>, "none", "none")
    /\ UNCHANGED <<db, user_valves, FUNCTIONS, cache_dirs, inflight, body,
                   peer, stores>>

NextOps ==
    \/ \E id \in IdStringsOps, c \in ContentsOps : create_new_function(id, c)
    \/ \E id \in PathIdsOps, c \in ContentsOps : update_function_by_id(id, c)
    \/ \E id \in PathIdsOps : delete_function_by_id(id)
    \/ \E id \in PathIdsOps : toggle_function_by_id(id)
    \/ \E id \in PathIdsOps : toggle_global_by_id(id)
    \/ \E id \in PathIdsOps : get_function_valves_spec_by_id(id)
    \/ \E id \in PathIdsOps, f \in ValveFormsOps : update_function_valves_by_id(id, f)
    \/ \E id \in PathIdsOps, u \in UsersOps : get_function_user_valves_spec_by_id(id, u)
    \/ \E id \in PathIdsOps, u \in UsersOps, f \in ValveFormsOps :
          update_function_user_valves_by_id(id, u, f)
    \/ Restart
    \/ EnvChange

SpecOps == Init /\ [][NextOps]_vars

-----------------------------------------------------------------------------
(* The requests with their callers. A handler runs once the dependency of  *)
(* its signature let the caller through.                                   *)

Role(user) == IF user = "admin" THEN "admin" ELSE "user"

\* Whether a dependency lets the caller through.
Passes(dependency, user) ==
    IF dependency = "get_admin_user" THEN Role(user) = "admin"
    ELSE Role(user) \in {"admin", "user"}

UserOps == {"user_valves_get", "user_valves_spec", "user_valves_update"}

\* A router whose every handler asks for a verified user only.
DependsOnVerifiedUser(op) == "get_verified_user"

\* user=Depends(...) in the signature of the handler of op.
Dependency(op) ==
    IF op \in UserOps THEN "get_verified_user" ELSE "get_admin_user"

\* The request of a caller: refused by the dependency, or handled.
as_user(user, op, id, handler) ==
    IF Passes(Dependency(op), user) THEN handler
    ELSE /\ inflight = Idle
         /\ last' = Response(op, id, "unauthorized", "none")
         /\ UNCHANGED <<db, user_valves, FUNCTIONS, cache_dirs, inflight, body, env, peer, stores>>

ContentsAuth == {"cA", "cSyntax"}

NextAuth ==
    \/ \E u \in Users, id \in IdStringsOps, c \in ContentsAuth :
          as_user(u, "create", id, create_new_function(id, c))
    \/ \E u \in Users, id \in PathIdsOps, c \in ContentsAuth :
          as_user(u, "update", id, update_function_by_id(id, c))
    \/ \E u \in Users, id \in PathIdsOps :
          as_user(u, "delete", id, delete_function_by_id(id))
    \/ \E u \in Users, id \in PathIdsOps :
          as_user(u, "toggle", id, toggle_function_by_id(id))
    \/ \E u \in Users, id \in PathIdsOps :
          as_user(u, "toggle_global", id, toggle_global_by_id(id))
    \/ \E u \in Users, id \in PathIdsOps :
          as_user(u, "valves_get", id, get_function_valves_by_id(id))
    \/ \E u \in Users, id \in PathIdsOps :
          as_user(u, "valves_spec", id, get_function_valves_spec_by_id(id))
    \/ \E u \in Users, id \in PathIdsOps, f \in ValveFormsOps :
          as_user(u, "valves_update", id, update_function_valves_by_id(id, f))
    \/ \E u \in Users, id \in PathIdsOps :
          as_user(u, "user_valves_get", id, get_function_user_valves_by_id(id, u))
    \/ \E u \in Users, id \in PathIdsOps :
          as_user(u, "user_valves_spec", id,
                  get_function_user_valves_spec_by_id(id, u))
    \/ \E u \in Users, id \in PathIdsOps, f \in ValveFormsOps :
          as_user(u, "user_valves_update", id,
                  update_function_user_valves_by_id(id, u, f))

SpecAuth == Init /\ [][NextAuth]_vars

-----------------------------------------------------------------------------
(* Two functions and two users: the valve handlers of both tiers.          *)

ContentsTwo == {"cA"}
ValveFormsTwo == { [k \in {"a"} |-> "i:5"], [k \in {"b"} |-> "i:5"] }

NextUsers ==
    \/ \E id \in IdStringsTwo, c \in ContentsTwo : create_new_function(id, c)
    \/ \E id \in IdStringsTwo : delete_function_by_id(id)
    \/ \E id \in IdStringsTwo, f \in ValveFormsTwo :
          update_function_valves_by_id(id, f)
    \/ \E id \in IdStringsTwo, u \in Users, f \in ValveFormsTwo :
          update_function_user_valves_by_id(id, u, f)

SpecUsers == Init /\ [][NextUsers]_vars

-----------------------------------------------------------------------------
(* Two functions, one of which may stop loading: the function handlers     *)
(* over source texts that load, that never load, and that load or not      *)
(* with the environment.                                                   *)

ContentsFrame == {"cA", "cEnv", "cSyntax"}

NextFrame ==
    \/ \E id \in IdStringsTwo, c \in ContentsFrame : create_new_function(id, c)
    \/ \E id \in IdStringsTwo, c \in ContentsFrame : update_function_by_id(id, c)
    \/ \E id \in IdStringsTwo : delete_function_by_id(id)
    \/ \E id \in IdStringsTwo : get_function_valves_spec_by_id(id)
    \/ \E id \in IdStringsTwo, f \in ValveFormsOps :
          update_function_valves_by_id(id, f)
    \/ Restart
    \/ EnvChange

SpecFrame == Init /\ [][NextFrame]_vars

-----------------------------------------------------------------------------
(* Create, update and delete over ids with a letter outside ASCII, the     *)
(* update forms carrying an id that is not the id of the path.             *)

PathIdsWide == { <<"f">>, <<"U+00E9">> }
FormIds == { <<"F">>, <<"1", "f">> }
ContentsWide == {"cA", "cB", "cSyntax"}

NextIds ==
    \/ \E id \in IdStringsWide, c \in ContentsWide : create_new_function(id, c)
    \/ \E id \in PathIdsWide, form_id \in FormIds, c \in ContentsWide :
          update_with_form(id, form_id, c)
    \/ \E id \in PathIdsWide : delete_function_by_id(id)

SpecIds == Init /\ [][NextIds]_vars


-----------------------------------------------------------------------------
(* The prompts and models routers. A caller is a verified user; a form     *)
(* carries the content and the access control of the resource, here the    *)
(* set of users it grants read access to.                                   *)

Callers == {"admin", "u1", "u2"}
Permitted == {"u1"}
ResourceContents == {"t1", "t2"}
ReaderSets == { {}, {"u2"} }
ResourceForms == [content : ResourceContents, readers : ReaderSets]

\* has_permission(user.id, "workspace.prompts" or "workspace.models", ...).
has_permission(user) == user \in Permitted

\* The forms of the models router: a model grants write access too.
ModelForms ==
    [content : ResourceContents, readers : ReaderSets, writers : ReaderSets]

\* has_access(user.id, type, access_control).
has_access(user, type, resource) ==
    IF type = "read" THEN user \in resource.readers
                     ELSE user \in resource.writers

\* The record an insert or an update leaves.
Stored(user, form) ==
    [exists |-> TRUE, user_id |-> user, readers |-> form.readers,
     content |-> form.content]

\* The record of a model an insert leaves.
StoredModel(user, form) ==
    [exists |-> TRUE, user_id |-> user, readers |-> form.readers,
     content |-> form.content, writers |-> form.writers, is_active |-> TRUE]

\* A handler answers and leaves the functions router alone.
Answer(op, key, status, user) ==
    /\ inflight = Idle
    /\ last' = Response(op, <<key>>, status, user)
    /\ UNCHANGED <<db, user_valves, FUNCTIONS, cache_dirs, inflight, body, env, peer>>

\* The caller is admin, owner or has read access.
may_read(resource, user) ==
    \/ Role(user) = "admin"
    \/ resource.user_id = user
    \/ has_access(user, "read", resource)

\* The caller may write whatever exists.
writes_anything(resource, user) == TRUE

\* The caller is the owner or an admin.
may_write(resource, user) ==
    ~(resource.user_id # user /\ Role(user) # "admin")

create_new_prompt(command, form, user) ==
    IF Role(user) # "admin" /\ ~has_permission(user)
    THEN Answer("prompt_create", command, "unauthorized", user)
         /\ UNCHANGED stores
    ELSE IF prompts[command].exists
    THEN Answer("prompt_create", command, "command_taken", user)
         /\ UNCHANGED stores
    ELSE /\ Answer("prompt_create", command, "ok", user)
         /\ prompts' = [prompts EXCEPT ![command] = Stored(user, form)]
         /\ UNCHANGED <<models, user_table, auth_table>>

get_prompt_by_command(command, user) ==
    /\ UNCHANGED stores
    /\ IF prompts[command].exists
       THEN IF may_read(prompts[command], user)
            THEN Answer("prompt_get", command, "ok", user)
            ELSE Answer("prompt_get", command, "null", user)
       ELSE Answer("prompt_get", command, "not_found", user)

update_prompt_by_command(command, form, user) ==
    IF ~prompts[command].exists
    THEN Answer("prompt_update", command, "not_found", user)
         /\ UNCHANGED stores
    ELSE IF ~may_write(prompts[command], user)
    THEN Answer("prompt_update", command, "access_prohibited", user)
         /\ UNCHANGED stores
    ELSE /\ Answer("prompt_update", command, "ok", user)
         /\ prompts' = [prompts EXCEPT
                          ![command] = Stored(prompts[command].user_id, form)]
         /\ UNCHANGED <<models, user_table, auth_table>>

delete_prompt_by_command(command, user) ==
    IF ~prompts[command].exists
    THEN Answer("prompt_delete", command, "not_found", user)
         /\ UNCHANGED stores
    ELSE IF ~may_write(prompts[command], user)
    THEN Answer("prompt_delete", command, "access_prohibited", user)
         /\ UNCHANGED stores
    ELSE /\ Answer("prompt_delete", command, "true", user)
         /\ prompts' = [prompts EXCEPT ![command] = NoResource]
         /\ UNCHANGED <<models, user_table, auth_table>>

create_new_model(id, form, user) ==
    IF Role(user) # "admin" /\ ~has_permission(user)
    THEN Answer("model_create", id, "unauthorized", user)
         /\ UNCHANGED stores
    ELSE IF models[id].exists
    THEN Answer("model_create", id, "model_id_taken", user)
         /\ UNCHANGED stores
    ELSE /\ Answer("model_create", id, "ok", user)
         /\ models' = [models EXCEPT ![id] = StoredModel(user, form)]
         /\ UNCHANGED <<prompts, user_table, auth_table>>

get_model_by_id(id, user) ==
    /\ UNCHANGED stores
    /\ IF models[id].exists
       THEN IF may_read(models[id], user)
            THEN Answer("model_get", id, "ok", user)
            ELSE Answer("model_get", id, "null", user)
       ELSE Answer("model_get", id, "not_found", user)

\* The caller is admin, owner or has write access.
may_toggle(model, user) ==
    \/ Role(user) = "admin"
    \/ model.user_id = user
    \/ has_access(user, "write", model)

toggle_model_by_id(id, user) ==
    IF ~models[id].exists
    THEN Answer("model_toggle", id, "not_found", user)
         /\ UNCHANGED stores
    ELSE IF ~may_toggle(models[id], user)
    THEN Answer("model_toggle", id, "unauthorized", user)
         /\ UNCHANGED stores
    ELSE /\ Answer("model_toggle", id, "ok", user)
         /\ models' = [models EXCEPT ![id].is_active = ~models[id].is_active]
         /\ UNCHANGED <<prompts, user_table, auth_table>>

update_model_by_id(id, form, user) ==
    IF ~models[id].exists
    THEN Answer("model_update", id, "not_found", user)
         /\ UNCHANGED stores
    ELSE /\ Answer("model_update", id, "ok", user)
         /\ models' = [models EXCEPT ![id].content = form.content,
                                     ![id].readers = form.readers,
                                     ![id].writers = form.writers]
         /\ UNCHANGED <<prompts, user_table, auth_table>>

delete_model_by_id(id, user) ==
    IF ~models[id].exists
    THEN Answer("model_delete", id, "not_found", user)
         /\ UNCHANGED stores
    ELSE IF ~may_write(models[id], user)
    THEN Answer("model_delete", id, "unauthorized", user)
         /\ UNCHANGED stores
    ELSE /\ Answer("model_delete", id, "true", user)
         /\ models' = [models EXCEPT ![id] = NoResource]
         /\ UNCHANGED <<prompts, user_table, auth_table>>

NextResources ==
    \/ \E command \in Commands, form \in ResourceForms, user \in Callers :
          create_new_prompt(command, form, user)
    \/ \E command \in Commands, user \in Callers :
          get_prompt_by_command(command, user)
    \/ \E command \in Commands, form \in ResourceForms, user \in Callers :
          update_prompt_by_command(command, form, user)
    \/ \E command \in Commands, user \in Callers :
          delete_prompt_by_command(command, user)
    \/ \E id \in ModelIds, form \in ModelForms, user \in Callers :
          create_new_model(id, form, user)
    \/ \E id \in ModelIds, user \in Callers :
          get_model_by_id(id, user)
    \/ \E id \in ModelIds, user \in Callers :
          toggle_model_by_id(id, user)
    \/ \E id \in ModelIds, form \in ModelForms, user \in Callers :
          update_model_by_id(id, form, user)
    \/ \E id \in ModelIds, user \in Callers :
          delete_model_by_id(id, user)

SpecResources == Init /\ [][NextResources]_vars

-----------------------------------------------------------------------------
(* The valve updates of both tiers over update maps that carry nulls.      *)

ContentsNulls == {"cA", "cB"}
ValveFormsNulls ==
    { [k \in {"a", "b"} |-> IF k = "a" THEN "i:5" ELSE Null],
      [k \in {"a", "b"} |-> IF k = "a" THEN Null ELSE "i:5"],
      [k \in {"a", "b"} |-> IF k = "a" THEN "s:abc" ELSE Null],
      [k \in {"a", "b"} |-> "i:5"] }

NextNulls ==
    \/ \E id \in IdStringsOne, c \in ContentsNulls : create_new_function(id, c)
    \/ \E id \in IdStringsOne, c \in ContentsNulls : update_function_by_id(id, c)
    \/ \E id \in IdStringsOne, f \in ValveFormsNulls :
          update_function_valves_by_id(id, f)
    \/ \E id \in IdStringsOne, u \in Users, f \in ValveFormsNulls :
          update_function_user_valves_by_id(id, u, f)

SpecNulls == Init /\ [][NextNulls]_vars

-----------------------------------------------------------------------------
(* The requests that name a function by id, addressed to ids with and      *)
(* without a persisted record.                                             *)

ContentsMissing == {"cA"}

NextMissing ==
    \/ \E id \in IdStringsOne, c \in ContentsMissing : create_new_function(id, c)
    \/ \E id \in IdStringsTwo, c \in ContentsMissing : update_function_by_id(id, c)
    \/ \E id \in IdStringsTwo : delete_function_by_id(id)
    \/ \E id \in IdStringsTwo : get_function(id)
    \/ \E id \in IdStringsTwo : toggle_function_by_id(id)
    \/ \E id \in IdStringsTwo : toggle_global_by_id(id)
    \/ \E id \in IdStringsTwo : get_function_valves_by_id(id)
    \/ \E id \in IdStringsTwo : get_function_valves_spec_by_id(id)
    \/ \E id \in IdStringsTwo, f \in ValveFormsOps :
          update_function_valves_by_id(id, f)
    \/ \E id \in IdStringsTwo, u \in UsersOps :
          get_function_user_valves_by_id(id, u)
    \/ \E id \in IdStringsTwo, u \in UsersOps :
          get_function_user_valves_spec_by_id(id, u)
    \/ \E id \in IdStringsTwo, u \in UsersOps, f \in ValveFormsOps :
          update_function_user_valves_by_id(id, u, f)

SpecMissing == Init /\ [][NextMissing]_vars

-----------------------------------------------------------------------------
(* The users router. Its handlers ask for an admin as the caller; a form   *)
(* names the user it is about.                                             *)

RoleForms == {"admin", "user"}
EmailForms == {"B@x", "d@x"}

\* str.lower() of an email.
LowerEmail(email) == IF email = "B@x" THEN "b@x" ELSE email

NoUser == [exists |-> FALSE, role |-> "none", email |-> "none"]
NoAuth == [exists |-> FALSE, email |-> "none"]

\* Depends(get_admin_user): the caller is a stored user with the admin role.
get_admin_user(caller) ==
    user_table[caller].exists /\ user_table[caller].role = "admin"

\* Users.get_first_user().id: the stored user created first.
get_first_user ==
    CHOOSE id \in UserIds :
        /\ user_table[id].exists
        /\ \A other \in UserIds :
              user_table[other].exists => Created(id) <= Created(other)

\* Users.get_user_by_email: whether a stored user has the email.
get_user_by_email(email) ==
    \E id \in UserIds : user_table[id].exists /\ user_table[id].email = email

\* Every role may be changed.
changes_any_role(caller, id) == TRUE

\* user.id != form_data.id and form_data.id != Users.get_first_user().id
may_change_role(caller, id) == caller # id /\ id # get_first_user

\* POST /update/role
update_user_role(caller, id, role) ==
    IF ~get_admin_user(caller)
    THEN Answer("user_role", id, "unauthorized", caller) /\ UNCHANGED stores
    ELSE IF ~may_change_role(caller, id)
    THEN Answer("user_role", id, "action_prohibited", caller)
         /\ UNCHANGED stores
    ELSE IF ~user_table[id].exists
    THEN Answer("user_role", id, "null", caller) /\ UNCHANGED stores
    ELSE /\ Answer("user_role", id, "ok", caller)
         /\ user_table' = [user_table EXCEPT ![id].role = role]
         /\ UNCHANGED <<prompts, models, auth_table>>

\* DELETE /{user_id}
delete_user_by_id(caller, id) ==
    IF ~get_admin_user(caller)
    THEN Answer("user_delete", id, "unauthorized", caller) /\ UNCHANGED stores
    ELSE IF caller = id
    THEN Answer("user_delete", id, "action_prohibited", caller)
         /\ UNCHANGED stores
    ELSE IF ~user_table[id].exists
    THEN Answer("user_delete", id, "delete_user_error", caller)
         /\ UNCHANGED stores
    ELSE /\ Answer("user_delete", id, "true", caller)
         /\ user_table' = [user_table EXCEPT ![id] = NoUser]
         /\ auth_table' = [auth_table EXCEPT ![id] = NoAuth]
         /\ UNCHANGED <<prompts, models>>

\* POST /{user_id}/update; the write of the user record may fail.
update_user_by_id(caller, id, email, fails) ==
    LET lowered == LowerEmail(email)
    IN  IF ~get_admin_user(caller)
        THEN Answer("user_update", id, "unauthorized", caller)
             /\ UNCHANGED stores
        ELSE IF ~user_table[id].exists
        THEN Answer("user_update", id, "user_not_found", caller)
             /\ UNCHANGED stores
        ELSE IF lowered # user_table[id].email /\ get_user_by_email(lowered)
        THEN Answer("user_update", id, "email_taken", caller)
             /\ UNCHANGED stores
        ELSE /\ auth_table' = [auth_table EXCEPT ![id].email = lowered]
             /\ IF fails
                THEN /\ Answer("user_update", id, "error_default", caller)
                     /\ UNCHANGED user_table
                ELSE /\ Answer("user_update", id, "ok", caller)
                     /\ user_table' = [user_table EXCEPT ![id].email = lowered]
             /\ UNCHANGED <<prompts, models>>

NextAccounts ==
    \/ \E caller \in UserIds, id \in UserIds, role \in RoleForms :
          update_user_role(caller, id, role)
    \/ \E caller \in UserIds, id \in UserIds :
          delete_user_by_id(caller, id)
    \/ \E caller \in UserIds, id \in UserIds, email \in EmailForms,
          fails \in BOOLEAN :
          update_user_by_id(caller, id, email, fails)

SpecAccounts == Init /\ [][NextAccounts]_vars

-----------------------------------------------------------------------------
(* Properties.                                                             *)

\* The module a handler gets for id: the cached one, or the one loaded from
\* the persisted content.
LoadedModule(id) == cached_or_loaded(FUNCTIONS, db, id).module

\* The module the loader builds from the persisted content of id.
ModuleOfPersisted(id) == load_function_module_by_id(db, id).module

\* C1: registry coherence. Whenever no handler is in flight, every id with
\* a registry entry has a persisted record, and the entry is the module
\* loaded from that record's content.
C1_RegistryCoherent ==
    inflight = Idle =>
        \A id \in Keys :
            FUNCTIONS[id] # NoModule =>
                /\ db[id].exists
                /\ FUNCTIONS[id] = ModuleOfPersisted(id)

\* After the step, the registry entry and the record of key reflect content c.
PairReflects(key, c) ==
    /\ db'[key].exists
    /\ db'[key].content = replace_imports(c)
    /\ FUNCTIONS'[key] = load_function_module(replace_imports(c)).module

\* The step left the registry entry and the record of key as they were.
PairUntouched(key) ==
    /\ db'[key] = db[key]
    /\ FUNCTIONS'[key] = FUNCTIONS[key]

\* C2: create and update commit the registry entry and the record as a
\* pair: after the attempt either both reflect the submitted content or
\* both are as before the attempt.
C2_AtomicPair ==
    [][ /\ \A id \in PathIds, c \in Contents :
              (last'.op = "update" /\ last'.id = id
                  /\ update_function_by_id(id, c)) =>
                  PairReflects(id, c) \/ PairUntouched(id)
        /\ \A id \in IdStrings, c \in Contents :
              (last'.op = "create" /\ last'.id = id
                  /\ create_new_function(id, c)) =>
                  IF IsIdentifier(id)
                  THEN PairReflects(Lower(id), c) \/ PairUntouched(Lower(id))
                  ELSE UNCHANGED <<db, FUNCTIONS>>
      ]_vars

\* The load of the submitted content fails: a syntax error, a runtime error,
\* or no entry-point class.
LoadFails(c) == ~load_function_module(replace_imports(c)).ok

\* C3: validate before commit. A create or update whose content fails to
\* load answers with the load error and changes neither the persisted
\* records, nor the user valves, nor the registry.
C3_ValidateBeforeCommit ==
    [][ /\ \A id \in PathIds, c \in Contents :
              (/\ last'.op = "update"
               /\ last'.id = id
               /\ LoadFails(c)
               /\ update_function_by_id(id, c)) =>
                  /\ last'.status = "error_load"
                  /\ UNCHANGED <<db, user_valves, FUNCTIONS>>
        /\ \A id \in IdStrings, c \in Contents :
              (/\ last'.op = "create"
               /\ last'.id = id
               /\ IsIdentifier(id)
               /\ ~get_function_by_id(db, Lower(id)).exists
               /\ LoadFails(c)
               /\ create_new_function(id, c)) =>
                  /\ last'.status = "error_load"
                  /\ UNCHANGED <<db, user_valves, FUNCTIONS>>
      ]_vars

\* An update with failing content was refused while id f had a record and a
\* registry entry to keep.
C3_Witness ==
    /\ last.op = "update"
    /\ last.status = "error_load"
    /\ last.id = <<"f">>
    /\ db[<<"f">>].exists
    /\ FUNCTIONS[<<"f">>] # NoModule

\* C4: no window in which the old module is served for the new content.
\* While an update of id is in flight, and right after it succeeded, the
\* persisted content being the submitted one implies that the registry
\* holds the module of the submitted content.
C4_NoStaleWindow ==
    /\ inflight.op = "update" =>
          (db[inflight.id].content = inflight.content =>
              FUNCTIONS[inflight.id] = load_function_module(inflight.content).module)
    /\ (inflight = Idle /\ last.op = "update" /\ last.status = "ok") =>
          FUNCTIONS[last.id] = ModuleOfPersisted(last.id)

\* An update of f from content cA to content cB has succeeded.
C4_Witness ==
    /\ inflight = Idle
    /\ last = Response("update", <<"f">>, "ok", "cA")
    /\ db[<<"f">>].content = "cB"
    /\ FUNCTIONS[<<"f">>] = "cB"

\* C5: after a delete of id neither the persisted store nor the registry
\* has an entry for id.
C5_DeleteRemovesBoth ==
    [][ \A id \in PathIds :
            (last'.op = "delete" /\ last'.id = id
                /\ delete_function_by_id(id)) =>
                /\ ~db'[id].exists
                /\ FUNCTIONS'[id] = NoModule
      ]_vars

\* C6: a create of an id that has a persisted record answers ID_TAKEN and
\* changes neither the persisted records, nor the user valves, nor the
\* registry.
C6_DuplicateCreateRejected ==
    [][ \A id \in IdStrings, c \in Contents :
            (/\ last'.op = "create"
             /\ last'.id = id
             /\ IsIdentifier(id)
             /\ get_function_by_id(db, Lower(id)).exists
             /\ create_new_function(id, c)) =>
                /\ last'.status = "id_taken"
                /\ UNCHANGED <<db, user_valves, FUNCTIONS, cache_dirs>>
      ]_vars

\* A create of the existing id f was refused.
C6_Witness ==
    /\ last.op = "create"
    /\ last.id = <<"f">>
    /\ last.status = "id_taken"
    /\ db[<<"f">>].exists

\* C7 as stated: a create whose id does not match [a-z0-9_]+ is refused as
\* invalid and creates no record and no registry entry.
C7_NonPatternIdRejected ==
    [][ \A id \in IdStrings, c \in Contents :
            (/\ last'.op = "create"
             /\ last'.id = id
             /\ ~MatchesIdPattern(id)
             /\ create_new_function(id, c)) =>
                /\ last'.status = "invalid_id"
                /\ UNCHANGED <<db, FUNCTIONS>>
      ]_vars

\* C7 amended: a create whose id is not an identifier (isidentifier) is
\* refused as invalid and creates no record and no registry entry.
C7_NonIdentifierRejected ==
    [][ \A id \in IdStrings, c \in Contents :
            (/\ last'.op = "create"
             /\ last'.id = id
             /\ ~IsIdentifier(id)
             /\ create_new_function(id, c)) =>
                /\ last'.status = "invalid_id"
                /\ UNCHANGED <<db, FUNCTIONS, cache_dirs>>
      ]_vars

\* A create with the id "f-" was refused as invalid.
C7_Witness ==
    /\ last.op = "create"
    /\ last.id = <<"f", "-">>
    /\ last.status = "invalid_id"

\* The update map gives a declared field a value its declared type refuses.
TypeMismatch(shape, form_data) ==
    \E k \in DOMAIN shape :
        /\ k \in DOMAIN form_data
        /\ form_data[k] # Null
        /\ Coerce(shape[k].type, form_data[k]) = Invalid

\* C8: an admin valve update with a value that the declared type of its
\* field refuses answers with a validation error and leaves the persisted
\* records, valves included, as they were.
C8_MismatchKeepsValves ==
    [][ \A id \in PathIds, f \in ValveForms :
            (/\ last'.op = "valves_update"
             /\ last'.id = id
             /\ get_function_by_id(db, id).exists
             /\ HasValves(LoadedModule(id))
             /\ TypeMismatch(ValvesOf(LoadedModule(id)), f)
             /\ update_function_valves_by_id(id, f)) =>
                /\ last'.status = "error_validation"
                /\ db' = db
      ]_vars

\* A mismatching valve update of f was refused while f had persisted valves.
C8_Witness ==
    /\ last.op = "valves_update"
    /\ last.id = <<"f">>
    /\ last.status = "error_validation"
    /\ db[<<"f">>].valves # NoValves

\* The values after a partial update that merges form_data into before:
\* a submitted field takes the submitted value, any other declared field
\* keeps the persisted value (the default when none was persisted).
Merged(shape, before, form_data) ==
    [k \in DOMAIN shape |->
        IF k \in DOMAIN form_data /\ form_data[k] # Null
            THEN Coerce(shape[k].type, form_data[k])
        ELSE IF k \in DOMAIN before THEN before[k]
        ELSE shape[k].default]

\* C9: a successful valve update, admin or user tier, persists the merge of
\* the update map into the values persisted before.
C9_PartialUpdateMerges ==
    [][ /\ \A id \in PathIds, f \in ValveForms :
              (/\ last' = Response("valves_update", id, "ok", "none")
               /\ update_function_valves_by_id(id, f)) =>
                  db'[id].valves =
                      Merged(ValvesOf(LoadedModule(id)), db[id].valves, f)
        /\ \A id \in PathIds, u \in Users, f \in ValveForms :
              (/\ last' = Response("user_valves_update", id, "ok", "none")
               /\ update_function_user_valves_by_id(id, u, f)) =>
                  user_valves'[<<id, u>>] =
                      Merged(UserValvesOf(LoadedModule(id)), user_valves[<<id, u>>], f)
      ]_vars

\* The persisted values validate against the shape: every persisted value
\* of a declared field is accepted by the field's declared type.
Validates(shape, values) ==
    \A k \in DOMAIN values \cap DOMAIN shape :
        Coerce(shape[k].type, values[k]) # Invalid

\* C10: the persisted admin valves and user valves of every function
\* validate against the shapes its loaded module declares.
C10_ValvesMatchLoadedShape ==
    inflight = Idle =>
        \A id \in Keys :
            db[id].exists =>
                /\ HasValves(LoadedModule(id)) =>
                      Validates(ValvesOf(LoadedModule(id)), db[id].valves)
                /\ HasUserValves(LoadedModule(id)) =>
                      \A u \in Users :
                          Validates(UserValvesOf(LoadedModule(id)),
                                    user_valves[<<id, u>>])

C12_TogglesIndependent ==
    [][ \A id \in PathIdsOps :
          /\ (/\ last'.op = "toggle"
               /\ last'.id = id
               /\ db[id].exists
               /\ toggle_function_by_id(id)) =>
                  /\ last'.status = "ok"
                  /\ db' = [db EXCEPT ![id].is_active = ~db[id].is_active]
                  /\ UNCHANGED <<FUNCTIONS, user_valves>>
          /\ (/\ last'.op = "toggle_global"
               /\ last'.id = id
               /\ db[id].exists
               /\ toggle_global_by_id(id)) =>
                  /\ last'.status = "ok"
                  /\ db' = [db EXCEPT ![id].is_global = ~db[id].is_global]
                  /\ UNCHANGED <<FUNCTIONS, user_valves>>
      ]_vars

\* A toggle went through on a function that has no registry entry and
\* whose content does not load.
C12_Witness ==
    /\ last = Response("toggle_global", <<"f">>, "ok", "none")
    /\ FUNCTIONS[<<"f">>] = NoModule
    /\ ~load_function_module_by_id(db, <<"f">>).ok
    /\ db[<<"f">>].is_global

\* C13: after an admin valve operation that needs the schema (the schema
\* read or the valve update) on a persisted function whose loaded module
\* declares no Valves shape the response is NotFound, and likewise for the
\* user valve operations and the UserValves shape.
C13_NoShapeReportsNotFound ==
    \A id \in PathIdsOps :
        (/\ last.id = id
         /\ db[id].exists
         /\ FUNCTIONS[id] # NoModule) =>
            /\ (/\ last.op \in {"valves_spec", "valves_update"}
                /\ ~HasValves(FUNCTIONS[id])) => last.status = "not_found"
            /\ (/\ last.op \in {"user_valves_spec", "user_valves_update"}
                /\ ~HasUserValves(FUNCTIONS[id])) => last.status = "not_found"

\* What the response of a schema-consulting operation says of the shape
\* the module declares.
SchemaConsulted(op, declared, status) ==
    IF op \in {"valves_spec", "user_valves_spec"}
    THEN status = (IF declared THEN "ok" ELSE "null")
    ELSE (status = "not_found") <=> ~declared

\* What a schema-consulting operation on a persisted function does with
\* the registry: an entry that is there is used as it is, a missing one
\* is loaded from the persisted content and stored.
LazilyLoaded(id, op, user_tier) ==
    LET loaded == load_function_module_by_id(db, id)
        declared(m) == IF user_tier THEN HasUserValves(m) ELSE HasValves(m)
    IN  IF FUNCTIONS[id] # NoModule THEN
           /\ FUNCTIONS' = FUNCTIONS
           /\ SchemaConsulted(op, declared(FUNCTIONS[id]), last'.status)
        ELSE loaded.ok =>
           /\ FUNCTIONS' = [FUNCTIONS EXCEPT ![id] = loaded.module]
           /\ SchemaConsulted(op, declared(loaded.module), last'.status)

\* C14: a valve schema read or a valve update, admin or user, on a
\* persisted function without a registry entry loads the module from the
\* persisted content and stores it in the registry before the schema is
\* consulted; with a registry entry, the entry is used and nothing is loaded.
C14_LazyLoadOnRead ==
    [][ \A id \in PathIdsOps :
          (/\ last'.id = id
           /\ db[id].exists) =>
              /\ (/\ last'.op = "valves_spec"
                  /\ get_function_valves_spec_by_id(id)) =>
                      LazilyLoaded(id, "valves_spec", FALSE)
              /\ \A f \in ValveFormsOps :
                    (/\ last'.op = "valves_update"
                     /\ update_function_valves_by_id(id, f)) =>
                         LazilyLoaded(id, "valves_update", FALSE)
              /\ \A u \in UsersOps :
                    (/\ last'.op = "user_valves_spec"
                     /\ get_function_user_valves_spec_by_id(id, u)) =>
                         LazilyLoaded(id, "user_valves_spec", TRUE)
              /\ \A u \in UsersOps, f \in ValveFormsOps :
                    (/\ last'.op = "user_valves_update"
                     /\ update_function_user_valves_by_id(id, u, f)) =>
                         LazilyLoaded(id, "user_valves_update", TRUE)
      ]_vars

\* A schema read answered from the registry entry while the persisted
\* content would not load.
C14_Witness ==
    /\ last = Response("valves_spec", <<"f">>, "ok", "none")
    /\ FUNCTIONS[<<"f">>] = "cEnv"
    /\ ~load_function_module_by_id(db, <<"f">>).ok

\* C15: an update request, whatever id its form carries, leaves every
\* record under the id it had: no id gains a record, no id loses one, and
\* the records of the ids other than the id of the path stay as they were.
C15_IdImmutable ==
    [][ \A id \in PathIdsWide, form_id \in FormIds, c \in ContentsWide :
          (/\ last'.op = "update"
           /\ last'.id = id
           /\ update_with_form(id, form_id, c)) =>
              /\ \A k \in Keys : db'[k].exists = db[k].exists
              /\ \A k \in Keys \ {id} : db'[k] = db[k]
      ]_vars

\* An update whose form carried another id went through and the record is
\* under the id of the path, with the submitted content.
C15_Witness ==
    /\ last = Response("update", <<"f">>, "ok", "cA")
    /\ db[<<"f">>].exists
    /\ db[<<"f">>].content = "cB"
    /\ \A k \in Keys \ {<<"f">>} : ~db[k].exists

\* C16: the id of every persisted function record is lowercase and
\* matches [a-z0-9_]+.
C16_PersistedIdsMatchPattern ==
    \A k \in Keys : db[k].exists => (Lower(k) = k /\ MatchesIdPattern(k))

\* What a request of a caller who is no admin may do: the function records
\* stay as they are, and so does every user valves record but the
\* caller's own for that function; an operation on a function or on its
\* admin valves is refused and changes nothing.
NonAdminEffect(user, op, id) ==
    /\ db' = db
    /\ \A k \in DOMAIN user_valves :
          k # <<id, user>> => user_valves'[k] = user_valves[k]
    /\ op \notin UserOps =>
          /\ last'.status = "unauthorized"
          /\ UNCHANGED <<db, user_valves, FUNCTIONS, cache_dirs, body>>

\* C17: only an admin creates, updates, deletes or toggles a function or
\* reads or writes its admin valves; a request of an authenticated user
\* who is no admin changes nothing in the persisted function store but
\* that user's own user valves record.
C17_AdminOnly ==
    [][ \A u \in Users, id \in IdStringsOps :
          (/\ Role(u) # "admin"
           /\ last'.id = id) =>
              /\ \A c \in ContentsAuth :
                    /\ (/\ last'.op = "create"
                         /\ as_user(u, "create", id, create_new_function(id, c)))
                            => NonAdminEffect(u, "create", id)
                    /\ (/\ last'.op = "update"
                         /\ as_user(u, "update", id, update_function_by_id(id, c)))
                            => NonAdminEffect(u, "update", id)
              /\ (/\ last'.op = "delete"
                   /\ as_user(u, "delete", id, delete_function_by_id(id)))
                      => NonAdminEffect(u, "delete", id)
              /\ (/\ last'.op = "toggle"
                   /\ as_user(u, "toggle", id, toggle_function_by_id(id)))
                      => NonAdminEffect(u, "toggle", id)
              /\ (/\ last'.op = "toggle_global"
                   /\ as_user(u, "toggle_global", id, toggle_global_by_id(id)))
                      => NonAdminEffect(u, "toggle_global", id)
              /\ (/\ last'.op = "valves_get"
                   /\ as_user(u, "valves_get", id, get_function_valves_by_id(id)))
                      => NonAdminEffect(u, "valves_get", id)
              /\ (/\ last'.op = "valves_spec"
                   /\ as_user(u, "valves_spec", id,
                              get_function_valves_spec_by_id(id)))
                      => NonAdminEffect(u, "valves_spec", id)
              /\ (/\ last'.op = "user_valves_get"
                   /\ as_user(u, "user_valves_get", id,
                              get_function_user_valves_by_id(id, u)))
                      => NonAdminEffect(u, "user_valves_get", id)
              /\ (/\ last'.op = "user_valves_spec"
                   /\ as_user(u, "user_valves_spec", id,
                              get_function_user_valves_spec_by_id(id, u)))
                      => NonAdminEffect(u, "user_valves_spec", id)
              /\ \A f \in ValveFormsOps :
                    /\ (/\ last'.op = "valves_update"
                         /\ as_user(u, "valves_update", id,
                                    update_function_valves_by_id(id, f)))
                            => NonAdminEffect(u, "valves_update", id)
                    /\ (/\ last'.op = "user_valves_update"
                         /\ as_user(u, "user_valves_update", id,
                                    update_function_user_valves_by_id(id, u, f)))
                            => NonAdminEffect(u, "user_valves_update", id)
      ]_vars

\* A request on the admin valves of a persisted function was refused
\* after a user had set their own user valves.
C17_Witness ==
    /\ last = Response("valves_update", <<"f">>, "unauthorized", "none")
    /\ db[<<"f">>].exists
    /\ user_valves[<<(<<"f">>), "u1">>] # NoValves

\* C18: a user valves update by a user on a function changes the record of
\* that function and that user only: the user valves of every other user
\* and of every other function, and the function records with their admin
\* valves, stay as they were.
C18_UserValvesScoped ==
    [][ \A id \in IdStringsTwo, u \in Users, f \in ValveFormsTwo :
          (/\ last'.op = "user_valves_update"
           /\ last'.id = id
           /\ update_function_user_valves_by_id(id, u, f)) =>
              /\ \A k \in DOMAIN user_valves :
                    k # <<id, u>> => user_valves'[k] = user_valves[k]
              /\ db' = db
      ]_vars

\* A user set their valves on one function while another user has valves
\* on it, the user has valves on the other function, and the function has
\* admin valves.
C18_Witness ==
    /\ last = Response("user_valves_update", <<"f">>, "ok", "none")
    /\ user_valves[<<(<<"f">>), "u1">>] # NoValves
    /\ user_valves[<<(<<"f">>), "admin">>] # NoValves
    /\ user_valves[<<(<<"g">>), "u1">>] # NoValves
    /\ user_valves[<<(<<"f">>), "u1">>] # user_valves[<<(<<"g">>), "u1">>]
    /\ db[<<"f">>].valves # NoValves

\* C19: a read of the user valves of a function and a user for whom no
\* record is persisted returns the default values of the UserValves shape
\* the function declares.
C19_AbsentUserValvesDefault ==
    [][ \A id \in PathIdsOps, u \in Users :
          (/\ last'.op = "user_valves_get"
           /\ last'.id = id
           /\ db[id].exists
           /\ user_valves[<<id, u>>] = NoValves
           /\ HasUserValves(LoadedModule(id))
           /\ get_function_user_valves_by_id(id, u)) =>
              body' = ModelDump(UserValvesOf(LoadedModule(id)), NoValves)
      ]_vars

\* C20: no request ends in a fault that its handler did not turn into an
\* error response.
C20_LoadFailureReported == last.status # "unhandled"

\* The function records with every record but that of id taken away, and
\* the registry with every entry but that of id taken away.
OnlyRecord(d, id) == [k \in DOMAIN d |-> IF k = id THEN d[k] ELSE NoRecord]
OnlyEntry(reg, id) == [k \in DOMAIN reg |-> IF k = id THEN reg[k] ELSE NoModule]

\* What an update, a delete or a schema read of id answers and leaves
\* behind for id, worked out from the record and the registry entry of id
\* alone.
AloneOutcome(op, id, c) ==
    LET d == OnlyRecord(db, id)
        reg == OnlyEntry(FUNCTIONS, id)
        loaded == load_function_module(replace_imports(c))
        updated == update_function_content(d, id, loaded.type,
                                           replace_imports(c), loaded.frontmatter)
        result == delete_function(d, id)
        got == cached_or_loaded(reg, d, id)
    IN  CASE op = "update" ->
               IF ~loaded.ok
               THEN [status |-> "error_load", record |-> d[id], entry |-> reg[id]]
               ELSE [status |-> IF updated.ok THEN "ok" ELSE "error_persist",
                     record |-> updated.db[id], entry |-> loaded.module]
          [] op = "delete" ->
               [status |-> IF result.ok THEN "true" ELSE "false",
                record |-> result.db[id],
                entry |-> IF result.ok THEN NoModule ELSE reg[id]]
          [] OTHER ->
               [status |-> IF ~d[id].exists THEN "not_found"
                           ELSE IF ~got.ok THEN "unhandled"
                           ELSE IF HasValves(got.module) THEN "ok" ELSE "null",
                record |-> d[id],
                entry |-> IF d[id].exists THEN got.registry[id] ELSE reg[id]]

\* The response and what is left for id are those of id taken alone.
AsAlone(op, id, c) ==
    /\ last'.status = AloneOutcome(op, id, c).status
    /\ db'[id] = AloneOutcome(op, id, c).record
    /\ FUNCTIONS'[id] = AloneOutcome(op, id, c).entry

\* C21: a request addressed to one id, whether it succeeds or fails,
\* leaves the record, the valves, the user valves and the registry entry
\* of every other id as they were; and what an update, a delete or a
\* schema read of an id answers and leaves behind depends on the record and
\* the registry entry of that id only, not on those of a function that
\* does not load.
C21_OtherFunctionsUntouched ==
    [][ \A id \in IdStringsTwo :
          (/\ last'.id = id
           /\ last'.op \notin {"restart", "env_change"}) =>
              /\ \A g \in Keys \ {id} :
                    /\ db'[g] = db[g]
                    /\ FUNCTIONS'[g] = FUNCTIONS[g]
                    /\ \A u \in Users :
                          user_valves'[<<g, u>>] = user_valves[<<g, u>>]
              /\ \A c \in ContentsFrame :
                    (/\ last'.op = "update"
                     /\ update_function_by_id(id, c)) => AsAlone("update", id, c)
              /\ (/\ last'.op = "delete"
                   /\ delete_function_by_id(id)) => AsAlone("delete", id, "none")
              /\ (/\ last'.op = "valves_spec"
                   /\ get_function_valves_spec_by_id(id))
                      => AsAlone("valves_spec", id, "none")
      ]_vars

\* A request on g was answered while f is persisted, has no registry
\* entry and does not load.
C21_Witness ==
    /\ last = Response("valves_spec", <<"g">>, "ok", "none")
    /\ FUNCTIONS[<<"g">>] = "cA"
    /\ db[<<"f">>].exists
    /\ FUNCTIONS[<<"f">>] = NoModule
    /\ ~load_function_module_by_id(db, <<"f">>).ok

ValveAccessOps ==
    {"valves_spec", "valves_update", "user_valves_spec", "user_valves_update"}

\* C24: a restart leaves the registry empty and the persisted records as
\* they were, and the first valve schema read or valve update on a
\* persisted function after it loads the module from the persisted content
\* and leaves it as the registry entry of the function.
C24_RestartRepopulatesLazily ==
    [][ /\ last'.op = "restart" =>
              /\ \A k \in Keys : FUNCTIONS'[k] = NoModule
              /\ db' = db
        /\ \A id \in PathIds :
              (/\ last.op = "restart"
               /\ last'.op \in ValveAccessOps
               /\ last'.id = id
               /\ db[id].exists) =>
                  /\ FUNCTIONS'[id] # NoModule
                  /\ FUNCTIONS'[id] = ModuleOfPersisted(id)
                  /\ db'[id].content = db[id].content
      ]_vars

\* The process restarted while a function is persisted: its record is
\* there and the registry is empty.
C24_Witness ==
    /\ last.op = "restart"
    /\ db[<<"f">>].exists
    /\ db[<<"f">>].valves # NoValves
    /\ \A k \in Keys : FUNCTIONS[k] = NoModule

\* C25: after a create that succeeds the cache directory of the created
\* id exists, and a delete leaves every cache directory in place.
C25_CacheDirProvisioned ==
    [][ /\ (last'.op = "create" /\ last'.status = "ok") =>
              Lower(last'.id) \in cache_dirs'
        /\ last'.op = "delete" => cache_dirs' = cache_dirs
      ]_vars

\* A created function was deleted and its cache directory is still there.
C25_Witness ==
    /\ last = Response("delete", <<"f">>, "true", "none")
    /\ ~db[<<"f">>].exists
    /\ <<"f">> \in cache_dirs

\* C28: whenever no handler is in flight, every id with a registry entry
\* is the id of a persisted function record.
C28_NoOrphanEntries ==
    inflight = Idle =>
        \A id \in Keys : FUNCTIONS[id] # NoModule => db[id].exists

\* No request of the process is between two of its statements.
AllCompleted == inflight = Idle /\ peer.inflight = Idle

C23_OtherInstanceObservesUpdate ==
    [][ \A id \in IdStringsOne :
          (/\ last'.op = "valves_spec"
           /\ last'.status \in {"ok", "null"}
           /\ last'.id = id
           /\ db[id].exists
           /\ get_function_valves_spec_by_id(id)) =>
              FUNCTIONS'[id] = db'[id].content
      ]_vars

C30_NoToggleLost ==
    [][ \A id \in IdStringsOne :
          (/\ inflight.op = "toggle"
           /\ inflight.id = id
           /\ last'.op = "toggle"
           /\ last'.status = "ok"
           /\ toggle_function_by_id_steps(id)) =>
              db'[id].is_active # db[id].is_active
      ]_vars

\* The answers that are HTTP errors.
HttpErrors == {"unauthorized", "not_found", "access_prohibited",
               "command_taken", "model_id_taken"}

\* C26: a read of a prompt or of a model ends in an HTTP error when the
\* resource does not exist and when the caller is neither admin nor owner
\* nor granted read access.
C26_UnauthorizedReadRaises ==
    [][ /\ \A command \in Commands, user \in Callers :
            (/\ last'.op = "prompt_get"
             /\ last'.prev = user
             /\ get_prompt_by_command(command, user)
             /\ \/ ~prompts[command].exists
                \/ /\ Role(user) # "admin"
                   /\ prompts[command].user_id # user
                   /\ user \notin prompts[command].readers) =>
                last'.status \in HttpErrors
        /\ \A id \in ModelIds, user \in Callers :
            (/\ last'.op = "model_get"
             /\ last'.prev = user
             /\ get_model_by_id(id, user)
             /\ \/ ~models[id].exists
                \/ /\ Role(user) # "admin"
                   /\ models[id].user_id # user
                   /\ user \notin models[id].readers) =>
                last'.status \in HttpErrors
      ]_vars

\* C27: an update or a delete of a prompt by a caller who is neither its
\* owner nor an admin ends in an HTTP error and leaves the stored prompts
\* as they were.
C27_PromptWriteByOwnerOrAdmin ==
    [][ \A command \in Commands, user \in Callers :
          (/\ last'.op \in {"prompt_update", "prompt_delete"}
           /\ last'.prev = user
           /\ prompts[command].exists
           /\ prompts[command].user_id # user
           /\ Role(user) # "admin"
           /\ \/ \E form \in ResourceForms :
                    update_prompt_by_command(command, form, user)
              \/ delete_prompt_by_command(command, user)) =>
              /\ last'.status \in HttpErrors
              /\ prompts' = prompts
      ]_vars

\* A user who is neither owner nor admin asked to delete a prompt of
\* another user, was refused, and the prompt is still stored.
C27_Witness ==
    /\ last = Response("prompt_delete", <<"/p">>, "access_prohibited", "u2")
    /\ prompts["/p"].exists
    /\ prompts["/p"].user_id = "u1"

\* An update map with one of its fields left out.
WithoutField(form, field) == [k \in DOMAIN form \ {field} |-> form[k]]

\* C31: a valve update whose map holds a field with a null value answers
\* and leaves behind what the update with that field left out of the map
\* answers and leaves behind, in the admin tier and in the user tier.
C31_NullFieldsIgnored ==
    [][ \A id \in IdStringsOne, form \in ValveFormsNulls :
          \A field \in {k \in DOMAIN form : form[k] = Null} :
             /\ (/\ last'.op = "valves_update"
                 /\ update_function_valves_by_id(id, form)) =>
                    update_function_valves_by_id(id, WithoutField(form, field))
             /\ \A user \in Users :
                   (/\ last'.op = "user_valves_update"
                    /\ update_function_user_valves_by_id(id, user, form)) =>
                       update_function_user_valves_by_id(
                           id, user, WithoutField(form, field))
      ]_vars

\* An update map with a null for b was accepted in both tiers: the stored
\* b is the declared default, which no map of the requests carries.
C31_Witness ==
    /\ last.op \in {"valves_update", "user_valves_update"}
    /\ last.status = "ok"
    /\ db[<<"f">>].valves = [k \in {"a", "b"} |-> IF k = "a" THEN "i:5" ELSE "i:2"]
    /\ user_valves[<<(<<"f">>), "u1">>] =
           [k \in {"a", "b"} |-> IF k = "a" THEN "i:5" ELSE "i:2"]

\* The requests that read or toggle a function or work on its valves.
ByIdOps == {"get", "toggle", "toggle_global", "valves_get", "valves_spec",
            "valves_update", "user_valves_get", "user_valves_spec",
            "user_valves_update"}

\* C32: a read, a toggle or a valve request addressed to an id without
\* persisted record answers not found and leaves the persisted records,
\* the user valves and the registry as they were.
C32_MissingIdNotFound ==
    [][ \A id \in IdStringsTwo :
          (/\ last'.op \in ByIdOps
           /\ last'.id = id
           /\ ~db[id].exists) =>
              /\ last'.status = "not_found"
              /\ db' = db
              /\ user_valves' = user_valves
              /\ FUNCTIONS' = FUNCTIONS
      ]_vars

\* A valve update addressed to an id without record was answered not
\* found while another function is persisted and the registry is empty for
\* the id.
C32_Witness ==
    /\ last = Response("valves_update", <<"g">>, "not_found", "none")
    /\ ~db[<<"g">>].exists
    /\ FUNCTIONS[<<"g">>] = NoModule
    /\ db[<<"f">>].exists

\* C33: after a create or an update that succeeded, the persisted type
\* of the function is the class the loader found in the persisted content
\* and the persisted manifest is the frontmatter of that content, whatever
\* manifest the form carried.
C33_TypeAndManifestFromContent ==
    \A id \in Keys :
        (/\ inflight = Idle
         /\ last.op \in {"create", "update"}
         /\ last.status = "ok"
         /\ id = IF last.op = "create" THEN Lower(last.id) ELSE last.id) =>
            /\ db[id].exists
            /\ db[id].type = load_function_module(db[id].content).type
            /\ db[id].manifest = Source(db[id].content).frontmatter

\* An update replaced a pipe by a filter with another frontmatter.
C33_Witness ==
    /\ last = Response("update", <<"f">>, "ok", "cA")
    /\ db[<<"f">>].content = "cB"
    /\ db[<<"f">>].type = "filter"
    /\ db[<<"f">>].manifest = "title: B"

\* C34: a create or an update whose content carries a frontmatter but
\* does not load leaves that frontmatter as the persisted manifest of the
\* function, so that the listing of the functions shows it.
C34_FrontmatterKeptOnLoadFailure ==
    [][ \A id \in IdStringsOps, c \in ContentsOps :
          (/\ last'.op \in {"create", "update"}
           /\ last'.id = id
           /\ last'.status = "error_load"
           /\ Source(c).frontmatter # ""
           /\ ~load_function_module(replace_imports(c)).ok
           /\ \/ create_new_function(id, c)
              \/ update_function_by_id(id, c)) =>
              /\ db'[id].exists
              /\ db'[id].manifest = Source(c).frontmatter
      ]_vars

\* C35: an update, a toggle or a delete of a model by a caller who is
\* neither admin nor owner of the model, and who for an update or a toggle
\* has no write access to it, leaves the stored models as they were.
C35_ModelWriteAuthorized ==
    [][ \A id \in ModelIds, user \in Callers :
          (/\ last'.op \in {"model_update", "model_toggle", "model_delete"}
           /\ last'.prev = user
           /\ last'.id = <<id>>
           /\ models[id].exists
           /\ Role(user) # "admin"
           /\ models[id].user_id # user
           /\ \/ last'.op = "model_delete"
              \/ user \notin models[id].writers) =>
              models' = models
      ]_vars

\* A stored user has the admin role.
AdminExists ==
    \E id \in UserIds : user_table[id].exists /\ user_table[id].role = "admin"

\* C36: a stored user with the admin role exists at all times; a change
\* of role and a delete of a user leave the record of the caller as it
\* was, and a change of role leaves the record of the first user as it was.
C36_AdminRemains ==
    /\ []AdminExists
    /\ [][ \A caller \in UserIds :
             (/\ last'.op \in {"user_role", "user_delete"}
              /\ last'.prev = caller) =>
                 /\ user_table'[caller] = user_table[caller]
                 /\ last'.op = "user_role" =>
                       user_table'[get_first_user] = user_table[get_first_user]
         ]_vars

\* The user created first was deleted by a user it had made admin, who is
\* the only admin left.
C36_Witness ==
    /\ last = Response("user_delete", <<"u0">>, "true", "u1")
    /\ ~user_table["u0"].exists
    /\ user_table["u1"].role = "admin"
    /\ user_table["u2"].role # "admin"

\* C37: no two stored users have the same email, and the credential record
\* of every stored user has the email of the user record.
C37_EmailsUniqueAndConsistent ==
    /\ \A id \in UserIds, other \in UserIds :
          (id # other /\ user_table[id].exists /\ user_table[other].exists) =>
              user_table[id].email # user_table[other].email
    /\ \A id \in UserIds :
          user_table[id].exists =>
              /\ auth_table[id].exists
              /\ auth_table[id].email = user_table[id].email

====
